---- MODULE Spec2Model ----
(***************************************************************************)
(* Model of the SBUS protocol crate (src/src/lib.rs): the bit-field codec  *)
(* (SbusPacket::parse, encode_packet), the frame validator                 *)
(* (validate_frame), the byte-at-a-time assembler (SbusParser) and the     *)
(* slice adapters (PacketIterator, RawPacketIterator).                     *)
(*                                                                         *)
(* Buffers are functions on 0..24 so that indices are the source's.  u8    *)
(* and u16 values are naturals; every shift keeps the width of its type.   *)
(***************************************************************************)
EXTENDS Integers, Sequences, FiniteSets, TLC

\* ------------------------------------------------------------ constants
SBUS_PACKET_SIZE == 25
SBUS_NUM_CHANNELS == 16
SBUS_HEADER == 15
SBUS_FLAG_BYTE_MASK == 240
SBUS_FOOTER == 0
\* Mutant: the mask is one bit too wide.
CHAN_MASK_wide == 2 * 2047 + 1
CHAN_MASK == 2047

\* ------------------------------------------------------- integer helpers
\* 2^k for the shift amounts the source uses (0..16).
Pow2(k) == CASE k = 0 -> 1 [] k = 1 -> 2 [] k = 2 -> 4 [] k = 3 -> 8
             [] k = 4 -> 16 [] k = 5 -> 32 [] k = 6 -> 64 [] k = 7 -> 128
             [] k = 8 -> 256 [] k = 9 -> 512 [] k = 10 -> 1024 [] k = 11 -> 2048
             [] k = 12 -> 4096 [] k = 13 -> 8192 [] k = 14 -> 16384
             [] k = 15 -> 32768 [] k = 16 -> 65536

RECURSIVE BitAnd(_, _)
\* Rust's & on unsigned integers.
BitAnd(a, b) ==
    IF a = 0 \/ b = 0 THEN 0
    ELSE (a % 2) * (b % 2) + 2 * BitAnd(a \div 2, b \div 2)

RECURSIVE BitOr(_, _)
\* Rust's | on unsigned integers.
BitOr(a, b) ==
    IF a = 0 THEN b
    ELSE IF b = 0 THEN a
    ELSE (IF a % 2 = 1 \/ b % 2 = 1 THEN 1 ELSE 0) + 2 * BitOr(a \div 2, b \div 2)

\* Rust's >> on an unsigned integer.
Shr(x, k) == x \div Pow2(k)
\* Rust's << on a u16: the bits shifted past bit 15 are lost.
Shl16(x, k) == (x * Pow2(k)) % 65536
\* Rust's << on a u8: the bits shifted past bit 7 are lost.
Shl8(x, k) == (x * Pow2(k)) % 256
\* Mutant: the cast keeps the bits above the low byte.
AsU8_wide(x) == x
\* `x as u8` of a u16: truncation to the low byte.
AsU8(x) == x % 256
\* `!m` of a u8 literal.
Not8(m) == 255 - m
\* `b as u8` of a bool.
BoolU8(b) == IF b THEN 1 ELSE 0

\* ------------------------------------------------------------ validator
is_sbus_footer(byte) == byte \in {0, 4, 20, 36, 52}

\* Mutant: the flag is read one bit too high.
is_flag_set_at_position_off(flag_byte, shift_by) ==
    BitAnd(Shr(flag_byte, shift_by + 1), 1) = 1

is_flag_set_at_position(flag_byte, shift_by) ==
    BitAnd(Shr(flag_byte, shift_by), 1) = 1

\* Option / Result values returned by the parser.
None == [tag |-> "None"]
Ok(v) == [tag |-> "Ok", val |-> v]
InvalidFooter(b) == [tag |-> "Err", err |-> "InvalidFooter", byte |-> b]
InvalidFlags(b) == [tag |-> "Err", err |-> "InvalidFlags", byte |-> b]
OkUnit == [tag |-> "Ok", val |-> "unit"]

\* State
AwaitingHead == [tag |-> "AwaitingHead"]
Reading(n) == [tag |-> "Reading", n |-> n]

\* Mutant: the flag byte is checked before the footer.
validate_frame_flags_first(p) ==
    LET footer == p.buffer[SBUS_PACKET_SIZE - 1]
        flags == p.buffer[SBUS_PACKET_SIZE - 2]
    IN  IF BitAnd(flags, SBUS_FLAG_BYTE_MASK) # 0 THEN InvalidFlags(flags)
        ELSE IF ~is_sbus_footer(footer) THEN InvalidFooter(footer)
        ELSE OkUnit

\* Mutant: the footer is not checked.
validate_frame_no_footer(p) ==
    LET flags == p.buffer[SBUS_PACKET_SIZE - 2]
    IN  IF BitAnd(flags, SBUS_FLAG_BYTE_MASK) # 0 THEN InvalidFlags(flags)
        ELSE OkUnit

\* SbusParser::validate_frame on a parser value p = [buffer, state].
validate_frame(p) ==
    LET footer == p.buffer[SBUS_PACKET_SIZE - 1]
        flags == p.buffer[SBUS_PACKET_SIZE - 2]
    IN  IF ~is_sbus_footer(footer) THEN InvalidFooter(footer)
        ELSE IF BitAnd(flags, SBUS_FLAG_BYTE_MASK) # 0 THEN InvalidFlags(flags)
        ELSE OkUnit

\* Mutant: the state test is inverted, validation runs only in Reading(25).
try_parse_skip(p) ==
    LET v == IF p.state = Reading(SBUS_PACKET_SIZE) THEN validate_frame(p) ELSE OkUnit
    IN  IF v.tag = "Err" THEN v ELSE Ok(p.buffer)

\* SbusParser::try_parse: validation is skipped only in Reading(25).
try_parse(p) ==
    LET v == IF p.state # Reading(SBUS_PACKET_SIZE) THEN validate_frame(p) ELSE OkUnit
    IN  IF v.tag = "Err" THEN v ELSE Ok(p.buffer)

\* --------------------------------------------------------------- decode
\* Mutant: the third byte of channel 5 is shifted by 8 instead of 9.
SbusPacket_parse_shift(buf) ==
    LET b(i) == buf[i]
        ch == [i \in 0..(SBUS_NUM_CHANNELS - 1) |->
            CASE i = 0 -> BitAnd(CHAN_MASK, BitOr(b(1), Shl16(b(2), 8)))
              [] i = 1 -> BitAnd(CHAN_MASK, BitOr(Shr(b(2), 3), Shl16(b(3), 5)))
              [] i = 2 -> BitAnd(CHAN_MASK, BitOr(BitOr(Shr(b(3), 6), Shl16(b(4), 2)), Shl16(b(5), 10)))
              [] i = 3 -> BitAnd(CHAN_MASK, BitOr(Shr(b(5), 1), Shl16(b(6), 7)))
              [] i = 4 -> BitAnd(CHAN_MASK, BitOr(Shr(b(6), 4), Shl16(b(7), 4)))
              [] i = 5 -> BitAnd(CHAN_MASK, BitOr(BitOr(Shr(b(7), 7), Shl16(b(8), 1)), Shl16(b(9), 8)))
              [] i = 6 -> BitAnd(CHAN_MASK, BitOr(Shr(b(9), 2), Shl16(b(10), 6)))
              [] i = 7 -> BitAnd(CHAN_MASK, BitOr(Shr(b(10), 5), Shl16(b(11), 3)))
              [] i = 8 -> BitAnd(CHAN_MASK, BitOr(b(12), Shl16(b(13), 8)))
              [] i = 9 -> BitAnd(CHAN_MASK, BitOr(Shr(b(13), 3), Shl16(b(14), 5)))
              [] i = 10 -> BitAnd(CHAN_MASK, BitOr(BitOr(Shr(b(14), 6), Shl16(b(15), 2)), Shl16(b(16), 10)))
              [] i = 11 -> BitAnd(CHAN_MASK, BitOr(Shr(b(16), 1), Shl16(b(17), 7)))
              [] i = 12 -> BitAnd(CHAN_MASK, BitOr(Shr(b(17), 4), Shl16(b(18), 4)))
              [] i = 13 -> BitAnd(CHAN_MASK, BitOr(BitOr(Shr(b(18), 7), Shl16(b(19), 1)), Shl16(b(20), 9)))
              [] i = 14 -> BitAnd(CHAN_MASK, BitOr(Shr(b(20), 2), Shl16(b(21), 6)))
              [] i = 15 -> BitAnd(CHAN_MASK, BitOr(Shr(b(21), 5), Shl16(b(22), 3)))]
        flag_byte == buf[23]
    IN  [channels |-> ch,
         channel_17 |-> is_flag_set_at_position(flag_byte, 0),
         channel_18 |-> is_flag_set_at_position(flag_byte, 1),
         frame_lost |-> is_flag_set_at_position(flag_byte, 2),
         failsafe |-> is_flag_set_at_position(flag_byte, 3)]

\* SbusPacket::parse: buf is the raw packet's 25 bytes.
SbusPacket_parse(buf) ==
    LET b(i) == buf[i]
        ch == [i \in 0..(SBUS_NUM_CHANNELS - 1) |->
            CASE i = 0 -> BitAnd(CHAN_MASK, BitOr(b(1), Shl16(b(2), 8)))
              [] i = 1 -> BitAnd(CHAN_MASK, BitOr(Shr(b(2), 3), Shl16(b(3), 5)))
              [] i = 2 -> BitAnd(CHAN_MASK, BitOr(BitOr(Shr(b(3), 6), Shl16(b(4), 2)), Shl16(b(5), 10)))
              [] i = 3 -> BitAnd(CHAN_MASK, BitOr(Shr(b(5), 1), Shl16(b(6), 7)))
              [] i = 4 -> BitAnd(CHAN_MASK, BitOr(Shr(b(6), 4), Shl16(b(7), 4)))
              [] i = 5 -> BitAnd(CHAN_MASK, BitOr(BitOr(Shr(b(7), 7), Shl16(b(8), 1)), Shl16(b(9), 9)))
              [] i = 6 -> BitAnd(CHAN_MASK, BitOr(Shr(b(9), 2), Shl16(b(10), 6)))
              [] i = 7 -> BitAnd(CHAN_MASK, BitOr(Shr(b(10), 5), Shl16(b(11), 3)))
              [] i = 8 -> BitAnd(CHAN_MASK, BitOr(b(12), Shl16(b(13), 8)))
              [] i = 9 -> BitAnd(CHAN_MASK, BitOr(Shr(b(13), 3), Shl16(b(14), 5)))
              [] i = 10 -> BitAnd(CHAN_MASK, BitOr(BitOr(Shr(b(14), 6), Shl16(b(15), 2)), Shl16(b(16), 10)))
              [] i = 11 -> BitAnd(CHAN_MASK, BitOr(Shr(b(16), 1), Shl16(b(17), 7)))
              [] i = 12 -> BitAnd(CHAN_MASK, BitOr(Shr(b(17), 4), Shl16(b(18), 4)))
              [] i = 13 -> BitAnd(CHAN_MASK, BitOr(BitOr(Shr(b(18), 7), Shl16(b(19), 1)), Shl16(b(20), 9)))
              [] i = 14 -> BitAnd(CHAN_MASK, BitOr(Shr(b(20), 2), Shl16(b(21), 6)))
              [] i = 15 -> BitAnd(CHAN_MASK, BitOr(Shr(b(21), 5), Shl16(b(22), 3)))]
        flag_byte == buf[23]
    IN  [channels |-> ch,
         channel_17 |-> is_flag_set_at_position(flag_byte, 0),
         channel_18 |-> is_flag_set_at_position(flag_byte, 1),
         frame_lost |-> is_flag_set_at_position(flag_byte, 2),
         failsafe |-> is_flag_set_at_position(flag_byte, 3)]

\* --------------------------------------------------------------- encode
\* Mutant: the first write of buf[2] does not clear its low three bits.
encode_packet_keep(buf, packet) ==
    LET ch == packet.channels
        b1 == [buf EXCEPT ![0] = SBUS_HEADER, ![1] = AsU8(ch[0])]
        b2 == [b1 EXCEPT ![2] = BitOr(b1[2],
                                      AsU8(BitAnd(Shr(ch[0], 8), 7)))]
        b3 == [b2 EXCEPT ![2] = BitOr(BitAnd(b2[2], Not8(248)),
                                      AsU8(Shl16(BitAnd(ch[1], 31), 3)))]
        b4 == [b3 EXCEPT
            ![3] = BitOr(AsU8(BitAnd(Shr(ch[1], 5), 63)), AsU8(Shl16(BitAnd(ch[2], 3), 6))),
            ![4] = AsU8(BitAnd(Shr(ch[2], 2), 255)),
            ![5] = BitOr(AsU8(BitAnd(Shr(ch[2], 10), 1)), AsU8(Shl16(BitAnd(ch[3], 127), 1))),
            ![6] = BitOr(AsU8(BitAnd(Shr(ch[3], 7), 15)), AsU8(Shl16(BitAnd(ch[4], 15), 4))),
            ![7] = BitOr(AsU8(BitAnd(Shr(ch[4], 4), 127)), AsU8(Shl16(BitAnd(ch[5], 1), 7))),
            ![8] = AsU8(BitAnd(Shr(ch[5], 1), 255)),
            ![9] = BitOr(AsU8(BitAnd(Shr(ch[5], 9), 3)), AsU8(Shl16(BitAnd(ch[6], 63), 2))),
            ![10] = BitOr(AsU8(BitAnd(Shr(ch[6], 6), 31)), AsU8(Shl16(BitAnd(ch[7], 7), 5))),
            ![11] = AsU8(BitAnd(Shr(ch[7], 3), 255)),
            ![12] = AsU8(ch[8]),
            ![13] = BitOr(AsU8(BitAnd(Shr(ch[8], 8), 7)), AsU8(Shl16(BitAnd(ch[9], 31), 3))),
            ![14] = BitOr(AsU8(BitAnd(Shr(ch[9], 5), 63)), AsU8(Shl16(BitAnd(ch[10], 3), 6))),
            ![15] = AsU8(BitAnd(Shr(ch[10], 2), 255)),
            ![16] = BitOr(AsU8(BitAnd(Shr(ch[10], 10), 1)), AsU8(Shl16(BitAnd(ch[11], 127), 1))),
            ![17] = BitOr(AsU8(BitAnd(Shr(ch[11], 7), 15)), AsU8(Shl16(BitAnd(ch[12], 15), 4))),
            ![18] = BitOr(AsU8(BitAnd(Shr(ch[12], 4), 127)), AsU8(Shl16(BitAnd(ch[13], 1), 7))),
            ![19] = AsU8(BitAnd(Shr(ch[13], 1), 255)),
            ![20] = BitOr(AsU8(BitAnd(Shr(ch[13], 9), 3)), AsU8(Shl16(BitAnd(ch[14], 63), 2))),
            ![21] = BitOr(AsU8(BitAnd(Shr(ch[14], 6), 31)), AsU8(Shl16(BitAnd(ch[15], 7), 5))),
            ![22] = AsU8(BitAnd(Shr(ch[15], 3), 255))]
        b5 == [b4 EXCEPT ![23] = 0]
        b6 == [b5 EXCEPT ![23] =
            BitOr(BitOr(BitOr(BitOr(b5[23], BoolU8(packet.channel_17)),
                              Shl8(BoolU8(packet.channel_18), 1)),
                        Shl8(BoolU8(packet.frame_lost), 2)),
                  Shl8(BoolU8(packet.failsafe), 3))]
    IN  [b6 EXCEPT ![24] = SBUS_FOOTER]

\* encode_packet: the buffer after the call, given its contents before.
\* The writes are applied in the source's order; buf[2] is written twice,
\* each time from its own previous value.
encode_packet(buf, packet) ==
    LET ch == packet.channels
        b1 == [buf EXCEPT ![0] = SBUS_HEADER, ![1] = AsU8(ch[0])]
        b2 == [b1 EXCEPT ![2] = BitOr(BitAnd(b1[2], Not8(7)),
                                      AsU8(BitAnd(Shr(ch[0], 8), 7)))]
        b3 == [b2 EXCEPT ![2] = BitOr(BitAnd(b2[2], Not8(248)),
                                      AsU8(Shl16(BitAnd(ch[1], 31), 3)))]
        b4 == [b3 EXCEPT
            ![3] = BitOr(AsU8(BitAnd(Shr(ch[1], 5), 63)), AsU8(Shl16(BitAnd(ch[2], 3), 6))),
            ![4] = AsU8(BitAnd(Shr(ch[2], 2), 255)),
            ![5] = BitOr(AsU8(BitAnd(Shr(ch[2], 10), 1)), AsU8(Shl16(BitAnd(ch[3], 127), 1))),
            ![6] = BitOr(AsU8(BitAnd(Shr(ch[3], 7), 15)), AsU8(Shl16(BitAnd(ch[4], 15), 4))),
            ![7] = BitOr(AsU8(BitAnd(Shr(ch[4], 4), 127)), AsU8(Shl16(BitAnd(ch[5], 1), 7))),
            ![8] = AsU8(BitAnd(Shr(ch[5], 1), 255)),
            ![9] = BitOr(AsU8(BitAnd(Shr(ch[5], 9), 3)), AsU8(Shl16(BitAnd(ch[6], 63), 2))),
            ![10] = BitOr(AsU8(BitAnd(Shr(ch[6], 6), 31)), AsU8(Shl16(BitAnd(ch[7], 7), 5))),
            ![11] = AsU8(BitAnd(Shr(ch[7], 3), 255)),
            ![12] = AsU8(ch[8]),
            ![13] = BitOr(AsU8(BitAnd(Shr(ch[8], 8), 7)), AsU8(Shl16(BitAnd(ch[9], 31), 3))),
            ![14] = BitOr(AsU8(BitAnd(Shr(ch[9], 5), 63)), AsU8(Shl16(BitAnd(ch[10], 3), 6))),
            ![15] = AsU8(BitAnd(Shr(ch[10], 2), 255)),
            ![16] = BitOr(AsU8(BitAnd(Shr(ch[10], 10), 1)), AsU8(Shl16(BitAnd(ch[11], 127), 1))),
            ![17] = BitOr(AsU8(BitAnd(Shr(ch[11], 7), 15)), AsU8(Shl16(BitAnd(ch[12], 15), 4))),
            ![18] = BitOr(AsU8(BitAnd(Shr(ch[12], 4), 127)), AsU8(Shl16(BitAnd(ch[13], 1), 7))),
            ![19] = AsU8(BitAnd(Shr(ch[13], 1), 255)),
            ![20] = BitOr(AsU8(BitAnd(Shr(ch[13], 9), 3)), AsU8(Shl16(BitAnd(ch[14], 63), 2))),
            ![21] = BitOr(AsU8(BitAnd(Shr(ch[14], 6), 31)), AsU8(Shl16(BitAnd(ch[15], 7), 5))),
            ![22] = AsU8(BitAnd(Shr(ch[15], 3), 255))]
        b5 == [b4 EXCEPT ![23] = 0]
        b6 == [b5 EXCEPT ![23] =
            BitOr(BitOr(BitOr(BitOr(b5[23], BoolU8(packet.channel_17)),
                              Shl8(BoolU8(packet.channel_18), 1)),
                        Shl8(BoolU8(packet.frame_lost), 2)),
                  Shl8(BoolU8(packet.failsafe), 3))]
    IN  [b6 EXCEPT ![24] = SBUS_FOOTER]

\* ------------------------------------------------------------ assembler
\* SbusParser::new
SbusParser_new == [buffer |-> [i \in 0..(SBUS_PACKET_SIZE - 1) |-> 0],
                   state |-> AwaitingHead]

\* Mutant: the frame is taken to be complete one byte early.
push_byte_raw_early(p, byte) ==
    IF p.state = AwaitingHead THEN
        IF byte = SBUS_HEADER
        THEN [parser |-> [buffer |-> [p.buffer EXCEPT ![0] = byte], state |-> Reading(1)],
              ret |-> None]
        ELSE [parser |-> p, ret |-> None]
    ELSE IF p.state.n = SBUS_PACKET_SIZE - 2 THEN
        LET q == [buffer |-> [p.buffer EXCEPT ![p.state.n] = byte], state |-> AwaitingHead]
        IN  [parser |-> q, ret |-> try_parse(q)]
    ELSE
        [parser |-> [buffer |-> [p.buffer EXCEPT ![p.state.n] = byte],
                     state |-> Reading(p.state.n + 1)],
         ret |-> None]

\* Mutant: a header byte met while reading restarts the frame.
push_byte_raw_restart(p, byte) ==
    IF p.state = AwaitingHead \/ byte = SBUS_HEADER THEN
        IF byte = SBUS_HEADER
        THEN [parser |-> [buffer |-> [p.buffer EXCEPT ![0] = byte], state |-> Reading(1)],
              ret |-> None]
        ELSE [parser |-> p, ret |-> None]
    ELSE IF p.state.n = SBUS_PACKET_SIZE - 1 THEN
        LET q == [buffer |-> [p.buffer EXCEPT ![p.state.n] = byte], state |-> AwaitingHead]
        IN  [parser |-> q, ret |-> try_parse(q)]
    ELSE
        [parser |-> [buffer |-> [p.buffer EXCEPT ![p.state.n] = byte],
                     state |-> Reading(p.state.n + 1)],
         ret |-> None]

\* Mutant: the header byte is recognised but not stored.
push_byte_raw_no_store(p, byte) ==
    IF p.state = AwaitingHead THEN
        IF byte = SBUS_HEADER
        THEN [parser |-> [buffer |-> p.buffer, state |-> Reading(1)], ret |-> None]
        ELSE [parser |-> p, ret |-> None]
    ELSE IF p.state.n = SBUS_PACKET_SIZE - 1 THEN
        LET q == [buffer |-> [p.buffer EXCEPT ![p.state.n] = byte], state |-> AwaitingHead]
        IN  [parser |-> q, ret |-> try_parse(q)]
    ELSE
        [parser |-> [buffer |-> [p.buffer EXCEPT ![p.state.n] = byte],
                     state |-> Reading(p.state.n + 1)],
         ret |-> None]

\* Mutant: after a frame that fails validation the state is left in Reading(24).
push_byte_raw_sticky(p, byte) ==
    IF p.state = AwaitingHead THEN
        IF byte = SBUS_HEADER
        THEN [parser |-> [buffer |-> [p.buffer EXCEPT ![0] = byte], state |-> Reading(1)],
              ret |-> None]
        ELSE [parser |-> p, ret |-> None]
    ELSE IF p.state.n = SBUS_PACKET_SIZE - 1 THEN
        LET q == [buffer |-> [p.buffer EXCEPT ![p.state.n] = byte], state |-> AwaitingHead]
            r == try_parse(q)
        IN  [parser |-> IF r.tag = "Err" THEN [q EXCEPT !.state = p.state] ELSE q,
             ret |-> r]
    ELSE
        [parser |-> [buffer |-> [p.buffer EXCEPT ![p.state.n] = byte],
                     state |-> Reading(p.state.n + 1)],
         ret |-> None]

\* Mutant: the frame is taken to be complete one byte late.
push_byte_raw_late(p, byte) ==
    IF p.state = AwaitingHead THEN
        IF byte = SBUS_HEADER
        THEN [parser |-> [buffer |-> [p.buffer EXCEPT ![0] = byte], state |-> Reading(1)],
              ret |-> None]
        ELSE [parser |-> p, ret |-> None]
    ELSE IF p.state.n = SBUS_PACKET_SIZE THEN
        LET q == [buffer |-> p.buffer, state |-> AwaitingHead]
        IN  [parser |-> q, ret |-> try_parse(q)]
    ELSE
        [parser |-> [buffer |-> [p.buffer EXCEPT ![p.state.n] = byte],
                     state |-> Reading(p.state.n + 1)],
         ret |-> None]

\* SbusParser::push_byte_raw: the parser after the call and the value returned.
push_byte_raw(p, byte) ==
    IF p.state = AwaitingHead THEN
        IF byte = SBUS_HEADER
        THEN [parser |-> [buffer |-> [p.buffer EXCEPT ![0] = byte], state |-> Reading(1)],
              ret |-> None]
        ELSE [parser |-> p, ret |-> None]
    ELSE IF p.state.n = SBUS_PACKET_SIZE - 1 THEN
        LET q == [buffer |-> [p.buffer EXCEPT ![p.state.n] = byte], state |-> AwaitingHead]
        IN  [parser |-> q, ret |-> try_parse(q)]
    ELSE
        [parser |-> [buffer |-> [p.buffer EXCEPT ![p.state.n] = byte],
                     state |-> Reading(p.state.n + 1)],
         ret |-> None]

\* The closure of push_byte: Option<Result<Raw, E>> -> Option<Result<Packet, E>>.
MapParse(r) == IF r.tag = "Ok" THEN Ok(SbusPacket_parse(r.val)) ELSE r

\* SbusParser::push_byte
push_byte(p, byte) ==
    LET r == push_byte_raw(p, byte)
    IN  [parser |-> r.parser, ret |-> MapParse(r.ret)]

\* Mutant: reset leaves the state as it is.
reset_noop(p) == p

\* SbusParser::reset
reset(p) == [p EXCEPT !.state = AwaitingHead]

\* ------------------------------------------------------- slice adapters
\* An iterator is [parser, remaining_data]: the borrowed parser and the slice.
\* Mutant: iter_packets resets the parser it borrows.
iter_packets_reset(p, d) == [parser |-> reset(p), remaining_data |-> d]

\* SbusParser::iter_packets
iter_packets(p, d) == [parser |-> p, remaining_data |-> d]

\* SbusParser::iter_packets_raw
iter_packets_raw(p, d) == [parser |-> p, remaining_data |-> d]

RECURSIVE PacketIterator_next_skip(_)
\* Mutant: the slice is advanced by two bytes where a frame completes.
PacketIterator_next_skip(it) ==
    IF it.remaining_data = <<>> THEN [it |-> it, item |-> None]
    ELSE LET b == it.remaining_data[1]
             rest == Tail(it.remaining_data)
             r == push_byte(it.parser, b)
         IN  IF r.ret # None
             THEN [it |-> [parser |-> r.parser,
                           remaining_data |-> IF rest = <<>> THEN rest ELSE Tail(rest)],
                   item |-> r.ret]
             ELSE PacketIterator_next_skip([parser |-> r.parser, remaining_data |-> rest])

RECURSIVE PacketIterator_next_fused(_)
\* Mutant: the iterator ends at the first frame that fails validation.
PacketIterator_next_fused(it) ==
    IF it.remaining_data = <<>> THEN [it |-> it, item |-> None]
    ELSE LET b == it.remaining_data[1]
             rest == Tail(it.remaining_data)
             r == push_byte(it.parser, b)
         IN  IF r.ret.tag = "Err"
             THEN [it |-> [parser |-> r.parser, remaining_data |-> <<>>], item |-> None]
             ELSE IF r.ret # None
             THEN [it |-> [parser |-> r.parser, remaining_data |-> rest], item |-> r.ret]
             ELSE PacketIterator_next_fused([parser |-> r.parser, remaining_data |-> rest])

RECURSIVE PacketIterator_next(_)
\* PacketIterator::next: the iterator after the call and the item returned
\* (None: the slice is exhausted).
PacketIterator_next(it) ==
    IF it.remaining_data = <<>> THEN [it |-> it, item |-> None]
    ELSE LET b == it.remaining_data[1]
             rest == Tail(it.remaining_data)
             r == push_byte(it.parser, b)
         IN  IF r.ret # None
             THEN [it |-> [parser |-> r.parser, remaining_data |-> rest], item |-> r.ret]
             ELSE PacketIterator_next([parser |-> r.parser, remaining_data |-> rest])

RECURSIVE RawPacketIterator_next(_)
\* RawPacketIterator::next
RawPacketIterator_next(it) ==
    IF it.remaining_data = <<>> THEN [it |-> it, item |-> None]
    ELSE LET b == it.remaining_data[1]
             rest == Tail(it.remaining_data)
             r == push_byte_raw(it.parser, b)
         IN  IF r.ret # None
             THEN [it |-> [parser |-> r.parser, remaining_data |-> rest], item |-> r.ret]
             ELSE RawPacketIterator_next([parser |-> r.parser, remaining_data |-> rest])

\* ------------------------------------------------------------ variables
VARIABLES
    packet,     \* codec: the SbusPacket handed to encode_packet
    buf,        \* codec: the caller's [u8; 25] output buffer
    parsed,     \* codec: the SbusPacket returned by SbusPacket::parse
    cpc,        \* codec: "build", "encoded" or "parsed"
    edits,      \* codec: fields of the packet (bytes of the frame) changed so far
    frame,      \* codec: the raw frame handed to SbusPacket::parse
    dirty,      \* codec: the caller's buffer as it was before encode_packet
    parser,     \* assembler: the SbusParser, [buffer, state]
    op,         \* assembler: the last call made on the parser
    byte,       \* assembler: the byte handed to the last push_byte
    prev,       \* assembler: the parser as it was before the last call
    ret,        \* assembler: what the last push_byte returned
    rawret,     \* assembler: what the push_byte_raw inside it returned
    cur,        \* feeder: the block of bytes being fed (<<>>: none yet)
    pending,    \* feeder: the bytes of cur not fed yet
    start,      \* feeder: parser state, last call and last result when cur began
    nblocks,    \* feeder: blocks begun so far
    hist,       \* feeder: record of the calls made: [recent, marks, sinceOut, gap]
    data,       \* adapters: the byte slice handed to iter_packets
    dblocks,    \* adapters: the blocks data is the concatenation of
    parser0,    \* adapters: the parser every pass starts from
    ipc,        \* adapters: "manual", "whole", "second", "raw" or "chunked"
    manual,     \* adapters: the push_byte loop: [nfed, results, rawresults, emitAt, parserAt]
    whole,      \* adapters: PacketIterator over data: [parser, remaining_data, results, done]
    second,     \* adapters: a second PacketIterator over data, same parser
    rawiter,    \* adapters: RawPacketIterator over data
    chunked,    \* adapters: PacketIterators over successive chunks: [.., off, active, midframe]
    probe       \* adapters: an iterator stepped call by call: [kind, .., last, nones]

codecVars == <<packet, buf, parsed, cpc, edits, frame, dirty>>
asmVars == <<parser, op, byte, prev, ret, rawret, cur, pending, start, nblocks, hist>>
iterVars == <<data, dblocks, parser0, ipc, manual, whole, second, rawiter, chunked, probe>>
vars == <<codecVars, asmVars, iterVars>>

\* ------------------------------------------------------- bounds and data
\* Fields of a base packet the caller may change before encoding.
MaxEdits == 2

\* Channel values tried: both alternating bit patterns and the extremes.
ChanVals == {0, 682, 1365, 2047}

ToBuf(s) == [i \in 0..(SBUS_PACKET_SIZE - 1) |-> s[i + 1]]
ToChannels(s) == [i \in 0..(SBUS_NUM_CHANNELS - 1) |-> s[i + 1]]
Fill(b) == [i \in 0..(SBUS_PACKET_SIZE - 1) |-> b]

\* tests::RAW_BYTES
RAW_BYTES == ToBuf(<<15, 224, 3, 31, 88, 192, 7, 22, 176, 128, 5, 44, 96, 1, 11,
                     248, 192, 7, 0, 0, 0, 0, 0, 3, 0>>)

\* `expected` of test_basic_packing_unpacking
TestPacket ==
    [channels |-> ToChannels(<<992, 992, 352, 992, 352, 352, 352, 352,
                               352, 352, 992, 992, 0, 0, 0, 0>>),
     channel_17 |-> TRUE, channel_18 |-> TRUE, frame_lost |-> FALSE, failsafe |-> FALSE]

\* `packet` of test_low_value
LowPacket ==
    [channels |-> [i \in 0..(SBUS_NUM_CHANNELS - 1) |-> 0],
     channel_17 |-> FALSE, channel_18 |-> FALSE, frame_lost |-> FALSE, failsafe |-> FALSE]

\* `packet` of test_high_value
HighPacket ==
    [channels |-> [i \in 0..(SBUS_NUM_CHANNELS - 1) |-> 2047],
     channel_17 |-> TRUE, channel_18 |-> TRUE, frame_lost |-> TRUE, failsafe |-> TRUE]

BasePackets == {TestPacket, LowPacket, HighPacket}

\* The "dirty" buffers the tests hand to encode_packet: [255; 25] and [0; 25].
DirtyBuffers == {Fill(255), Fill(0)}

NoPacket == [tag |-> "None"]

\* ------------------------------------------------------- codec actions
\* The caller builds a packet: pub fields of SbusPacket are assigned freely.
SetChannel(i, v) ==
    /\ cpc = "build"
    /\ edits < MaxEdits
    /\ packet.channels[i] # v
    /\ packet' = [packet EXCEPT !.channels[i] = v]
    /\ edits' = edits + 1
    /\ UNCHANGED <<buf, parsed, cpc, frame, dirty, asmVars, iterVars>>

SetFlag(f) ==
    /\ cpc = "build"
    /\ edits < MaxEdits
    /\ packet' = [packet EXCEPT ![f] = ~packet[f]]
    /\ edits' = edits + 1
    /\ UNCHANGED <<buf, parsed, cpc, frame, dirty, asmVars, iterVars>>

\* encode_packet(&mut buffer, &packet) on a dirty buffer.
Encode ==
    /\ cpc = "build"
    /\ \E d \in DirtyBuffers : buf' = encode_packet(d, packet)
    /\ cpc' = "encoded"
    /\ UNCHANGED <<packet, parsed, edits, frame, dirty, asmVars, iterVars>>

\* SbusPacket::parse(&RawSbusPacket::new(&buffer))
Parse ==
    /\ cpc = "encoded"
    /\ parsed' = SbusPacket_parse(buf)
    /\ cpc' = "parsed"
    /\ UNCHANGED <<packet, buf, edits, frame, dirty, asmVars, iterVars>>

\* The record of the calls made on a parser, kept by the feeder:
\*   recent    the bytes pushed since new() or the last reset(), the last 25
\*             of them at most, in push order;
\*   marks     for each byte of recent, whether it was the first byte of a
\*             frame of the stream;
\*   sinceOut  the pushes made since the last push that returned Some
\*             (25 stands for 25 or more, or no Some yet);
\*   gap       sinceOut + 1 as it was at the last push that returned Some.
HistFresh == [recent |-> <<>>, marks |-> <<>>, sinceOut |-> SBUS_PACKET_SIZE,
              gap |-> SBUS_PACKET_SIZE]

\* The last 25 elements of s.
LastFrame(s) ==
    IF Len(s) <= SBUS_PACKET_SIZE THEN s
    ELSE SubSeq(s, Len(s) - SBUS_PACKET_SIZE + 1, Len(s))

\* hist after a push of byte b that returned r; first: b began a frame.
Record(h, b, first, r) ==
    LET n == IF h.sinceOut + 1 < SBUS_PACKET_SIZE THEN h.sinceOut + 1
             ELSE SBUS_PACKET_SIZE
    IN  [recent |-> LastFrame(Append(h.recent, b)),
         marks |-> LastFrame(Append(h.marks, first)),
         sinceOut |-> IF r = None THEN n ELSE 0,
         gap |-> IF r = None THEN h.gap ELSE n]

\* The assembler before any call: SbusParser::new().
AsmFresh ==
    /\ parser = SbusParser_new
    /\ op = "new"
    /\ byte = 0
    /\ prev = SbusParser_new
    /\ ret = None
    /\ rawret = None
    /\ cur = <<>>
    /\ pending = <<>>
    /\ start = [state |-> AwaitingHead, op |-> "new", prev |-> AwaitingHead, ret |-> None]
    /\ nblocks = 0
    /\ hist = HistFresh

\* No call of next() made yet.
NoCall == [tag |-> "NoCall"]

\* The stepped iterator before it is created.
ProbeFresh == [kind |-> "none", parser |-> SbusParser_new, remaining_data |-> <<>>,
               results |-> <<>>, last |-> NoCall, nones |-> 0]

\* The adapters before any call.
IterFresh ==
    /\ data = <<>>
    /\ dblocks = <<>>
    /\ parser0 = SbusParser_new
    /\ ipc = "idle"
    /\ manual = [nfed |-> 0, results |-> <<>>, rawresults |-> <<>>, emitAt |-> <<>>,
                 parserAt |-> <<>>]
    /\ whole = [parser |-> SbusParser_new, remaining_data |-> <<>>, results |-> <<>>, done |-> FALSE]
    /\ second = whole
    /\ rawiter = whole
    /\ chunked = [parser |-> SbusParser_new, remaining_data |-> <<>>, results |-> <<>>,
                  off |-> 0, active |-> FALSE, midframe |-> FALSE]
    /\ probe = ProbeFresh

\* The codec before any call.
CodecFresh ==
    /\ buf = Fill(0)
    /\ parsed = NoPacket
    /\ cpc = "build"
    /\ edits = 0
    /\ frame = Fill(0)
    /\ dirty = Fill(0)

CodecInit ==
    /\ packet \in BasePackets
    /\ CodecFresh
    /\ AsmFresh
    /\ IterFresh

CodecNext ==
    \/ \E i \in 0..(SBUS_NUM_CHANNELS - 1), v \in ChanVals : SetChannel(i, v)
    \/ \E f \in {"channel_17", "channel_18", "frame_lost", "failsafe"} : SetFlag(f)
    \/ Encode
    \/ Parse

SpecCodec == CodecInit /\ [][CodecNext]_vars

\* ------------------------------------------ encoding into a used buffer
\* encode_packet(&mut buffer, &packet) as test_low_value and test_high_value
\* call it, the buffer's previous contents kept on record.
EncodeDirty ==
    /\ cpc = "build"
    /\ \E d \in DirtyBuffers :
        /\ dirty' = d
        /\ buf' = encode_packet(d, packet)
    /\ cpc' = "written"
    /\ UNCHANGED <<packet, parsed, edits, frame, asmVars, iterVars>>

EncodeNext ==
    \/ \E i \in 0..(SBUS_NUM_CHANNELS - 1), v \in ChanVals : SetChannel(i, v)
    \/ \E f \in {"channel_17", "channel_18", "frame_lost", "failsafe"} : SetFlag(f)
    \/ EncodeDirty

SpecEncode == CodecInit /\ [][EncodeNext]_vars

\* ------------------------------------------------------- assembler data
\* Blocks of bytes the feeder may begin, over the whole run.
MaxBlocks == 2

\* tests::test_malformed_footer::BAD_FOOTER
BAD_FOOTER == [Fill(255) EXCEPT ![0] = 15, ![23] = 15]
\* tests::test_malformed_flags::BAD_FLAGS
BAD_FLAGS == [Fill(255) EXCEPT ![0] = 15, ![24] = 0]
\* tests::test_high_value::EXPECTED, the third frame of test_basic_iterator
HIGH_FRAME == [Fill(255) EXCEPT ![0] = 15, ![23] = 15, ![24] = 0]
\* tests::test_low_value::EXPECTED, the fourth frame of test_basic_iterator
LOW_FRAME == [Fill(0) EXCEPT ![0] = 15]
\* A frame with both defects: flag bits 4-7 set and a footer outside the set.
BOTH_BAD == [Fill(255) EXCEPT ![0] = 15]

\* An SbusPacket with channel 15 = 120 and every other field zero.
Ch15Packet == [LowPacket EXCEPT !.channels[15] = 120]
\* The frame encode_packet writes for Ch15Packet: byte 22, its last payload
\* byte, is 120 >> 3 and so has the header's value 0x0F.
CH15_FRAME == [Fill(0) EXCEPT ![0] = 15, ![22] = 15]

ToSeq(f) == [i \in 1..SBUS_PACKET_SIZE |-> f[i - 1]]

\* Complete 25-byte frames, each starting with the header byte.
Frames == {ToSeq(RAW_BYTES), ToSeq(BAD_FOOTER), ToSeq(BAD_FLAGS),
           ToSeq(HIGH_FRAME), ToSeq(LOW_FRAME), ToSeq(BOTH_BAD), ToSeq(CH15_FRAME)}

\* A frame validate_frame accepts.
IsValidFrame(f) ==
    /\ Len(f) = SBUS_PACKET_SIZE
    /\ f[1] = SBUS_HEADER
    /\ f[25] \in {0, 4, 20, 36, 52}
    /\ f[24] < 16

\* A frame cut short by byte loss: the first k bytes of RAW_BYTES, 1 <= k <= 24.
Truncated == {SubSeq(ToSeq(RAW_BYTES), 1, k) : k \in 1..(SBUS_PACKET_SIZE - 1)}

\* Line noise between frames: one byte that is not the header.
Noise == {<<165>>}

\* The end of a frame whose beginning was lost: bytes 22..24 of CH15_FRAME.
Tails == {SubSeq(ToSeq(CH15_FRAME), SBUS_PACKET_SIZE - 2, SBUS_PACKET_SIZE)}

\* Blocks whose first byte is the header byte of a frame of the stream.
FrameStarts == Frames \cup Truncated

Blocks == Frames \cup Truncated \cup Noise \cup Tails

\* Bytes of cur fed so far.
Fed == Len(cur) - Len(pending)

\* ----------------------------------------------------- assembler actions
\* The feeder turns to the next block of the byte stream.
BeginBlock(b) ==
    /\ pending = <<>>
    /\ nblocks < MaxBlocks
    /\ cur' = b
    /\ pending' = b
    /\ start' = [state |-> parser.state, op |-> op, prev |-> prev.state, ret |-> ret]
    /\ nblocks' = nblocks + 1
    /\ UNCHANGED <<parser, op, byte, prev, ret, rawret, hist, codecVars, iterVars>>

\* One call parser.push_byte(b): the parser, the results and the record of the call.
Push(b) ==
    /\ LET raw == push_byte_raw(parser, b)
           r == push_byte(parser, b)
       IN  /\ parser' = r.parser
           /\ ret' = r.ret
           /\ rawret' = raw.ret
           /\ hist' = Record(hist, b, pending = cur /\ cur \in FrameStarts, raw.ret)
    /\ byte' = b
    /\ prev' = parser
    /\ op' = "push_byte"

\* parser.push_byte(b) for the next byte of the stream.
PushByte ==
    /\ pending # <<>>
    /\ Push(Head(pending))
    /\ pending' = Tail(pending)
    /\ UNCHANGED <<cur, start, nblocks, codecVars, iterVars>>

\* parser.reset(), called by the owner between blocks (a read timeout).
Reset ==
    /\ pending = <<>>
    /\ parser' = reset(parser)
    /\ prev' = parser
    /\ op' = "reset"
    /\ hist' = [hist EXCEPT !.recent = <<>>, !.marks = <<>>]
    /\ UNCHANGED <<byte, ret, rawret, cur, pending, start, nblocks, codecVars, iterVars>>

Init ==
    /\ AsmFresh
    /\ packet = LowPacket
    /\ CodecFresh
    /\ IterFresh

Next ==
    \/ \E b \in Blocks : BeginBlock(b)
    \/ PushByte
    \/ Reset

Spec == Init /\ [][Next]_vars

\* ------------------------------------------------- decoding a raw frame
\* Raw frames a caller may hand to RawSbusPacket::new: any 25 bytes.
RawBases == {RAW_BYTES, LOW_FRAME, HIGH_FRAME}

\* Bytes tried at position i: no header, both alternating bit patterns in the
\* payload, flag bytes with and without bits 4-7, every telemetry footer and
\* a byte that is no footer.
ByteVals(i) ==
    CASE i = 0 -> {0}
      [] i = SBUS_PACKET_SIZE - 2 -> {5, 10, 240}
      [] i = SBUS_PACKET_SIZE - 1 -> {4, 20, 36, 52, 255}
      [] OTHER -> {85, 170}

\* The caller changes one byte of the array before wrapping it.
SetByte(i, v) ==
    /\ cpc = "frame"
    /\ edits < MaxEdits
    /\ frame[i] # v
    /\ frame' = [frame EXCEPT ![i] = v]
    /\ edits' = edits + 1
    /\ UNCHANGED <<packet, buf, parsed, cpc, dirty, asmVars, iterVars>>

\* SbusPacket::parse(&RawSbusPacket::new(&frame))
ParseRaw ==
    /\ cpc = "frame"
    /\ parsed' = SbusPacket_parse(frame)
    /\ cpc' = "decoded"
    /\ UNCHANGED <<packet, buf, edits, frame, dirty, asmVars, iterVars>>

\* encode_packet(&mut buffer, &parsed) on a dirty buffer.
ReEncode ==
    /\ cpc = "decoded"
    /\ \E d \in DirtyBuffers :
        /\ dirty' = d
        /\ buf' = encode_packet(d, parsed)
    /\ cpc' = "reencoded"
    /\ UNCHANGED <<packet, parsed, edits, frame, asmVars, iterVars>>

DecodeInit ==
    /\ frame \in RawBases
    /\ packet = LowPacket
    /\ buf = Fill(0)
    /\ parsed = NoPacket
    /\ cpc = "frame"
    /\ edits = 0
    /\ dirty = Fill(0)
    /\ AsmFresh
    /\ IterFresh

DecodeNext ==
    \/ \E i \in 0..(SBUS_PACKET_SIZE - 1) : \E v \in ByteVals(i) : SetByte(i, v)
    \/ ParseRaw
    \/ ReEncode

SpecDecode == DecodeInit /\ [][DecodeNext]_vars

\* ------------------------------------------------- validation of a frame
\* The assembler after the header and 22 payload bytes of frame f: the two
\* bytes still to come are the flag byte and the footer.
AfterPayload(f) ==
    [buffer |-> [i \in 0..(SBUS_PACKET_SIZE - 1) |-> IF i < 23 THEN f[i] ELSE 0],
     state |-> Reading(SBUS_PACKET_SIZE - 2)]

\* parser.push_byte(b) with any byte value, while a frame is being read.
PushAny(b) ==
    /\ parser.state # AwaitingHead
    /\ Push(b)
    /\ UNCHANGED <<cur, pending, start, nblocks, codecVars, iterVars>>

ValidateInit ==
    /\ \E f \in {RAW_BYTES, HIGH_FRAME} :
          /\ parser = AfterPayload(f)
          /\ prev = [buffer |-> [AfterPayload(f).buffer EXCEPT ![22] = 0],
                     state |-> Reading(SBUS_PACKET_SIZE - 3)]
          /\ byte = f[22]
          /\ hist = [HistFresh EXCEPT
                        !.recent = SubSeq(ToSeq(f), 1, SBUS_PACKET_SIZE - 2),
                        !.marks = [i \in 1..(SBUS_PACKET_SIZE - 2) |-> i = 1],
                        !.sinceOut = SBUS_PACKET_SIZE - 2]
    /\ op = "push_byte"
    /\ ret = None
    /\ rawret = None
    /\ cur = <<>>
    /\ pending = <<>>
    /\ start = [state |-> AwaitingHead, op |-> "new", prev |-> AwaitingHead, ret |-> None]
    /\ nblocks = 0
    /\ packet = LowPacket
    /\ CodecFresh
    /\ IterFresh

ValidateNext == \E b \in 0..255 : PushAny(b)

SpecValidate == ValidateInit /\ [][ValidateNext]_vars

\* --------------------------------------------------- slice adapter runs
\* Blocks concatenated into the slice handed to the adapters.
MaxStreamBlocks == 2

\* The blocks a slice is made of: frames of test_basic_iterator (a bad footer,
\* a valid frame, bad flags), a frame cut after 12 bytes, a lone header byte
\* and a noise byte.
StreamBlocks ==
    {ToSeq(BAD_FOOTER), ToSeq(RAW_BYTES), ToSeq(BAD_FLAGS),
     SubSeq(ToSeq(RAW_BYTES), 1, 12), <<15>>, <<165>>}

\* Lengths of the chunks a reader hands over: a read may return nothing, one
\* byte or part of a frame; a longer slice holds more than a frame.
ChunkLens == {0, 1, 12, 40}

RECURSIVE Concat(_)
Concat(bs) == IF bs = <<>> THEN <<>> ELSE Head(bs) \o Concat(Tail(bs))

\* `data` of test_basic_iterator: five frames, 125 bytes.
TestStream == <<ToSeq(BAD_FOOTER), ToSeq(RAW_BYTES), ToSeq(HIGH_FRAME),
                ToSeq(LOW_FRAME), ToSeq(BAD_FLAGS)>>

BlockSeqs ==
    UNION {[1..n -> StreamBlocks] : n \in 0..MaxStreamBlocks} \cup {TestStream}

RECURSIVE Feed(_, _)
\* The parser after push_byte_raw of every byte of s, in order.
Feed(p, s) == IF s = <<>> THEN p ELSE Feed(push_byte_raw(p, Head(s)).parser, Tail(s))

\* Parsers a run may start from: new, in the middle of a frame, after a frame.
StartParsers ==
    {SbusParser_new,
     Feed(SbusParser_new, SubSeq(ToSeq(RAW_BYTES), 1, 12)),
     Feed(SbusParser_new, ToSeq(BAD_FOOTER))}

Min(a, b) == IF a < b THEN a ELSE b

\* The caller's loop `for b in data { parser.push_byte(b) }`, one byte a step,
\* keeping every Some it gets.
ManualPush ==
    /\ ipc = "manual"
    /\ manual.nfed < Len(data)
    /\ Push(data[manual.nfed + 1])
    /\ manual' = [nfed |-> manual.nfed + 1,
                  results |-> IF ret' # None THEN Append(manual.results, ret')
                              ELSE manual.results,
                  rawresults |-> IF rawret' # None THEN Append(manual.rawresults, rawret')
                                 ELSE manual.rawresults,
                  emitAt |-> IF ret' # None THEN Append(manual.emitAt, manual.nfed + 1)
                             ELSE manual.emitAt,
                  parserAt |-> IF ret' # None THEN Append(manual.parserAt, parser')
                               ELSE manual.parserAt]
    /\ UNCHANGED <<cur, pending, start, nblocks, codecVars>>
    /\ UNCHANGED <<data, dblocks, parser0, ipc, whole, second, rawiter, chunked, probe>>

\* One next() on a run r = [parser, remaining_data, results, done] with the
\* adapter's next operator applied: its item is kept, None ends the run.
Advance(r, n) ==
    [r EXCEPT !.parser = n.it.parser,
              !.remaining_data = n.it.remaining_data,
              !.results = IF n.item # None THEN Append(r.results, n.item) ELSE r.results]

\* parser.iter_packets(&data) on a parser in the starting state.
WholeCreate ==
    /\ ipc = "manual"
    /\ manual.nfed = Len(data)
    /\ ipc' = "whole"
    /\ LET it == iter_packets(parser0, data)
       IN  whole' = [parser |-> it.parser, remaining_data |-> it.remaining_data,
                     results |-> <<>>, done |-> FALSE]
    /\ UNCHANGED <<codecVars, asmVars, data, dblocks, parser0, manual, second, rawiter, chunked, probe>>

\* next() on that iterator, as `collect()` calls it until None.
WholeNext ==
    /\ ipc = "whole"
    /\ ~whole.done
    /\ LET n == PacketIterator_next([parser |-> whole.parser,
                                     remaining_data |-> whole.remaining_data])
       IN  whole' = [Advance(whole, n) EXCEPT !.done = (n.item = None)]
    /\ UNCHANGED <<codecVars, asmVars, data, dblocks, parser0, ipc, manual, second, rawiter, chunked, probe>>

\* parser.iter_packets(&data) again, on the parser the first pass left.
SecondCreate ==
    /\ ipc = "whole"
    /\ whole.done
    /\ ipc' = "second"
    /\ LET it == iter_packets(whole.parser, data)
       IN  second' = [parser |-> it.parser, remaining_data |-> it.remaining_data,
                      results |-> <<>>, done |-> FALSE]
    /\ UNCHANGED <<codecVars, asmVars, data, dblocks, parser0, manual, whole, rawiter, chunked, probe>>

SecondNext ==
    /\ ipc = "second"
    /\ ~second.done
    /\ LET n == PacketIterator_next([parser |-> second.parser,
                                     remaining_data |-> second.remaining_data])
       IN  second' = [Advance(second, n) EXCEPT !.done = (n.item = None)]
    /\ UNCHANGED <<codecVars, asmVars, data, dblocks, parser0, ipc, manual, whole, rawiter, chunked, probe>>

\* parser.iter_packets_raw(&data) on a parser in the starting state.
RawCreate ==
    /\ ipc = "second"
    /\ second.done
    /\ ipc' = "raw"
    /\ LET it == iter_packets_raw(parser0, data)
       IN  rawiter' = [parser |-> it.parser, remaining_data |-> it.remaining_data,
                       results |-> <<>>, done |-> FALSE]
    /\ UNCHANGED <<codecVars, asmVars, data, dblocks, parser0, manual, whole, second, chunked, probe>>

RawNext ==
    /\ ipc = "raw"
    /\ ~rawiter.done
    /\ LET n == RawPacketIterator_next([parser |-> rawiter.parser,
                                        remaining_data |-> rawiter.remaining_data])
       IN  rawiter' = [Advance(rawiter, n) EXCEPT !.done = (n.item = None)]
    /\ UNCHANGED <<codecVars, asmVars, data, dblocks, parser0, ipc, manual, whole, second, chunked, probe>>

\* The reader loop of the example: the same parser, one iter_packets per chunk.
ChunkedBegin ==
    /\ ipc = "raw"
    /\ rawiter.done
    /\ ipc' = "chunked"
    /\ chunked' = [parser |-> parser0, remaining_data |-> <<>>, results |-> <<>>,
                   off |-> 0, active |-> FALSE, midframe |-> FALSE]
    /\ UNCHANGED <<codecVars, asmVars, data, dblocks, parser0, manual, whole, second, rawiter, probe>>

\* sbus.iter_packets(&buf[..size]) on the next `len` bytes of the stream.
ChunkCreate(len) ==
    /\ ipc = "chunked"
    /\ ~chunked.active
    /\ chunked.off < Len(data)
    /\ LET end == Min(chunked.off + len, Len(data))
           it == iter_packets(chunked.parser, SubSeq(data, chunked.off + 1, end))
       IN  chunked' = [chunked EXCEPT !.parser = it.parser,
                                      !.remaining_data = it.remaining_data,
                                      !.off = end,
                                      !.active = TRUE]
    /\ UNCHANGED <<codecVars, asmVars, data, dblocks, parser0, ipc, manual, whole, second, rawiter, probe>>

\* next() of the `for result in ...` loop over the chunk; None ends the loop.
ChunkNext ==
    /\ ipc = "chunked"
    /\ chunked.active
    /\ LET n == PacketIterator_next([parser |-> chunked.parser,
                                     remaining_data |-> chunked.remaining_data])
       IN  chunked' = [Advance(chunked, n) EXCEPT
               !.active = (n.item # None),
               !.midframe = chunked.midframe
                            \/ (n.item = None /\ n.it.parser.state # AwaitingHead)]
    /\ UNCHANGED <<codecVars, asmVars, data, dblocks, parser0, ipc, manual, whole, second, rawiter, probe>>

\* parser.iter_packets(&data) or parser.iter_packets_raw(&data) on a parser
\* in the starting state, to be stepped by hand.
ProbeCreate(kind) ==
    /\ ipc = "chunked"
    /\ ~chunked.active
    /\ chunked.off = Len(data)
    /\ ipc' = "probe"
    /\ LET it == IF kind = "packets" THEN iter_packets(parser0, data)
                 ELSE iter_packets_raw(parser0, data)
       IN  probe' = [kind |-> kind, parser |-> it.parser,
                     remaining_data |-> it.remaining_data,
                     results |-> <<>>, last |-> NoCall, nones |-> 0]
    /\ UNCHANGED <<codecVars, asmVars, data, dblocks, parser0, manual, whole, second,
                   rawiter, chunked>>

\* One next() on the stepped iterator; the caller goes on calling it after
\* the first None, once more.
ProbeNext ==
    /\ ipc = "probe"
    /\ probe.nones < 2
    /\ LET it == [parser |-> probe.parser, remaining_data |-> probe.remaining_data]
           n == IF probe.kind = "packets" THEN PacketIterator_next(it)
                ELSE RawPacketIterator_next(it)
       IN  probe' = [Advance(probe, n) EXCEPT
               !.last = n.item,
               !.nones = IF n.item = None THEN probe.nones + 1 ELSE probe.nones]
    /\ UNCHANGED <<codecVars, asmVars, data, dblocks, parser0, ipc, manual, whole, second,
                   rawiter, chunked>>

\* The iterator is dropped before it has returned None (a `break` out of the
\* `for` loop): no next() is called on it any more, and the borrowed parser
\* is left as the last call left it.
ProbeDrop ==
    /\ ipc = "probe"
    /\ probe.nones = 0
    /\ ipc' = "dropped"
    /\ UNCHANGED <<codecVars, asmVars, data, dblocks, parser0, manual, whole, second,
                   rawiter, chunked, probe>>

IterInit ==
    /\ dblocks \in BlockSeqs
    /\ data = Concat(dblocks)
    /\ parser0 \in StartParsers
    /\ ipc = "manual"
    /\ manual = [nfed |-> 0, results |-> <<>>, rawresults |-> <<>>, emitAt |-> <<>>,
                 parserAt |-> <<>>]
    /\ whole = [parser |-> SbusParser_new, remaining_data |-> <<>>, results |-> <<>>, done |-> FALSE]
    /\ second = whole
    /\ rawiter = whole
    /\ chunked = [parser |-> SbusParser_new, remaining_data |-> <<>>, results |-> <<>>,
                  off |-> 0, active |-> FALSE, midframe |-> FALSE]
    /\ probe = ProbeFresh
    /\ parser = parser0
    /\ op = "new"
    /\ byte = 0
    /\ prev = parser0
    /\ ret = None
    /\ rawret = None
    /\ cur = <<>>
    /\ pending = <<>>
    /\ start = [state |-> AwaitingHead, op |-> "new", prev |-> AwaitingHead, ret |-> None]
    /\ nblocks = 0
    /\ hist = HistFresh
    /\ packet = LowPacket
    /\ CodecFresh

IterNext ==
    \/ ManualPush
    \/ WholeCreate
    \/ WholeNext
    \/ SecondCreate
    \/ SecondNext
    \/ RawCreate
    \/ RawNext
    \/ ChunkedBegin
    \/ \E len \in ChunkLens : ChunkCreate(len)
    \/ ChunkNext
    \/ \E kind \in {"packets", "raw"} : ProbeCreate(kind)
    \/ ProbeNext
    \/ ProbeDrop

SpecIter == IterInit /\ [][IterNext]_vars

\* ------------------------------------------------------------- claims
\* C1: round trip.  For every packet whose 16 channels are in 0..=2047 and
\* whose flags are arbitrary booleans, SbusPacket::parse of the 25 bytes
\* written by encode_packet returns a packet equal to the one encoded.
C1_RoundTrip ==
    cpc = "parsed" => parsed = packet

\* A packet that differs from every base packet in a channel and a flag has
\* been encoded and parsed back.
C1_Witness ==
    /\ cpc = "parsed"
    /\ edits = MaxEdits
    /\ \E i \in 0..(SBUS_NUM_CHANNELS - 1) : packet.channels[i] = 1365
    /\ packet.frame_lost # packet.failsafe
    /\ \A i \in 0..(SBUS_NUM_CHANNELS - 1) : packet.channels[i] \in 0..2047

\* The test vector: encoding TestPacket gives RAW_BYTES, which parses back.
TestVectorOk ==
    /\ encode_packet(Fill(255), TestPacket) = RAW_BYTES
    /\ SbusPacket_parse(RAW_BYTES) = TestPacket
    /\ encode_packet(Fill(255), LowPacket) = [Fill(0) EXCEPT ![0] = 15]
    /\ encode_packet(Fill(0), HighPacket) = [Fill(255) EXCEPT ![0] = 15, ![23] = 15, ![24] = 0]
    /\ encode_packet(Fill(255), Ch15Packet) = CH15_FRAME

\* What the spec says a completed 25-byte buffer b yields, as a raw result.
Footers == {0, 4, 20, 36, 52}
ExpectedRaw(b) ==
    IF b[24] \notin Footers THEN InvalidFooter(b[24])
    ELSE IF b[23] \div 16 # 0 THEN InvalidFlags(b[23])
    ELSE Ok(b)
\* The same as the result of push_byte: the frame decoded.
ExpectedParsed(b) ==
    IF ExpectedRaw(b).tag = "Ok" THEN Ok(SbusPacket_parse(b)) ELSE ExpectedRaw(b)

\* C2: push_byte / push_byte_raw return Some exactly when the byte is pushed
\* in Reading(24), and None in AwaitingHead and in Reading(n), n < 24; from
\* AwaitingHead, the 25 bytes of a frame starting with 0x0F give None for the
\* first 24 bytes and Some for the 25th.
C2_SomeOnlyAtCompletion ==
    op = "push_byte" =>
        /\ (ret # None) <=> (prev.state = Reading(24))
        /\ (rawret # None) <=> (prev.state = Reading(24))
        /\ (cur \in Frames /\ start.state = AwaitingHead /\ Fed \in 1..24)
              => (ret = None /\ rawret = None)
        /\ (cur \in Frames /\ start.state = AwaitingHead /\ Fed = 25)
              => (ret.tag \in {"Ok", "Err"} /\ rawret.tag \in {"Ok", "Err"})

\* The 25th byte of RAW_BYTES, fed from AwaitingHead, has returned the packet.
C2_Witness ==
    /\ op = "push_byte"
    /\ cur = ToSeq(RAW_BYTES)
    /\ start.state = AwaitingHead
    /\ Fed = 25
    /\ prev.state = Reading(24)
    /\ ret = Ok(TestPacket)

\* C3: a completed buffer whose byte 24 is not in {0x00, 0x04, 0x14, 0x24,
\* 0x34} yields InvalidFooter(byte 24); otherwise, if byte 23 has a bit of
\* 4..7 set, InvalidFlags(byte 23); otherwise it succeeds.  The footer is
\* checked first and the error carries the offending byte.
C3_ValidationOrder ==
    (op = "push_byte" /\ prev.state = Reading(24)) =>
        /\ parser.buffer[24] = byte
        /\ rawret = ExpectedRaw(parser.buffer)
        /\ ret = ExpectedParsed(parser.buffer)

\* A frame with both defects has been completed and reported InvalidFooter.
C3_Witness ==
    /\ op = "push_byte"
    /\ prev.state = Reading(24)
    /\ parser.buffer[23] = 255
    /\ parser.buffer[24] = 255
    /\ rawret = InvalidFooter(255)
    /\ ret = InvalidFooter(255)

\* C5 as stated: after any garbage bytes (no reset), every valid 25-byte
\* frame that arrives afterwards is emitted as Ok.
C5_AnyGarbage ==
    (op = "push_byte" /\ IsValidFrame(cur) /\ Fed = 25 /\ start.op # "reset") =>
        /\ rawret = Ok(ToBuf(cur))
        /\ ret = Ok(SbusPacket_parse(ToBuf(cur)))

\* C5, amended: a valid 25-byte frame whose header byte arrives while the
\* assembler is in AwaitingHead (the garbage before it held no 0x0F, or the
\* read a 0x0F began has ended) is emitted as Ok on its 25th byte.
C5_ResyncWhenAwaitingHead ==
    (op = "push_byte" /\ IsValidFrame(cur) /\ Fed = 25 /\ start.state = AwaitingHead) =>
        /\ rawret = Ok(ToBuf(cur))
        /\ ret = Ok(SbusPacket_parse(ToBuf(cur)))

\* A noise byte was dropped in AwaitingHead and the valid frame after it came out.
C5_Witness ==
    /\ op = "push_byte"
    /\ nblocks = 2
    /\ start.op = "push_byte"
    /\ start.prev = AwaitingHead
    /\ start.state = AwaitingHead
    /\ cur = ToSeq(HIGH_FRAME)
    /\ Fed = 25
    /\ rawret = Ok(HIGH_FRAME)

\* C6: reset() puts the assembler in AwaitingHead from any state and produces
\* no frame; after a reset in Reading(n), a fresh valid frame yields None for
\* its first 24 bytes and one Ok on its 25th, the decode of that frame alone.
C6_ResetThenFrame ==
    /\ op = "reset" => (parser.state = AwaitingHead /\ parser.buffer = prev.buffer)
    /\ (op = "push_byte" /\ start.op = "reset" /\ start.prev.tag = "Reading"
           /\ IsValidFrame(cur)) =>
          /\ Fed \in 1..24 => (ret = None /\ rawret = None)
          /\ Fed = 25 => (rawret = Ok(ToBuf(cur)) /\ ret = Ok(SbusPacket_parse(ToBuf(cur))))

\* A reset in Reading(12) was followed by RAW_BYTES, which came out whole.
C6_Witness ==
    /\ op = "push_byte"
    /\ start.op = "reset"
    /\ start.prev = Reading(12)
    /\ cur = ToSeq(RAW_BYTES)
    /\ Fed = 25
    /\ ret = Ok(TestPacket)

\* C7: in AwaitingHead, pushing 0x0F moves to Reading(1) with buffer[0] =
\* 0x0F whatever happened before; any other byte leaves the state and the
\* buffer unchanged and returns None.
C7_HeaderStartsRead ==
    (op = "push_byte" /\ prev.state = AwaitingHead) =>
        /\ ret = None /\ rawret = None
        /\ IF byte = SBUS_HEADER
           THEN /\ parser.state = Reading(1)
                /\ parser.buffer = [prev.buffer EXCEPT ![0] = SBUS_HEADER]
           ELSE parser = prev

\* A header byte pushed right after an error result has started a read.
C7_Witness ==
    /\ op = "push_byte"
    /\ prev.state = AwaitingHead
    /\ byte = SBUS_HEADER
    /\ start.ret.tag = "Err"
    /\ Fed = 1
    /\ parser.state = Reading(1)

\* C8: after the push that emits a result, Ok or Err, the assembler is in
\* AwaitingHead; a malformed frame's error is returned at the call pushing
\* its 25th byte, and a valid frame fed right after that byte is emitted Ok.
C8_ErrorNotSticky ==
    op = "push_byte" =>
        /\ ret # None => parser.state = AwaitingHead
        /\ (cur \in Frames /\ ~IsValidFrame(cur) /\ start.state = AwaitingHead) =>
              /\ Fed \in 1..24 => ret = None
              /\ Fed = 25 => (ret = ExpectedParsed(ToBuf(cur)) /\ ret.tag = "Err")
        /\ (IsValidFrame(cur) /\ Fed = 25 /\ start.op = "push_byte"
               /\ start.ret.tag = "Err") =>
              ret = Ok(SbusPacket_parse(ToBuf(cur)))

\* RAW_BYTES came out Ok right after the byte that returned InvalidFooter.
C8_Witness ==
    /\ op = "push_byte"
    /\ start.op = "push_byte"
    /\ start.ret = InvalidFooter(255)
    /\ cur = ToSeq(RAW_BYTES)
    /\ Fed = 25
    /\ ret = Ok(TestPacket)

\* C4: feeding the bytes one at a time through push_byte and keeping the
\* Some outputs gives the same ordered results, and the same final assembler
\* state, as draining iter_packets over the same bytes as one slice; likewise
\* push_byte_raw and iter_packets_raw.
C4_SliceEqualsByteAtATime ==
    /\ whole.done => (whole.results = manual.results /\ whole.parser = parser)
    /\ rawiter.done => (rawiter.results = manual.rawresults /\ rawiter.parser = parser)

\* From the middle of a frame, both adapters were drained over a slice in
\* which a frame completed and others followed.
C4_Witness ==
    /\ rawiter.done
    /\ whole.done
    /\ parser0.state = Reading(12)
    /\ Len(data) > SBUS_PACKET_SIZE
    /\ Len(whole.results) >= 2
    /\ Len(rawiter.results) >= 2
    /\ manual.nfed = Len(data)

\* The slice is k 25-byte blocks, each starting with the header.
AllFrames == \A i \in 1..Len(dblocks) :
    Len(dblocks[i]) = SBUS_PACKET_SIZE /\ dblocks[i][1] = SBUS_HEADER

\* C9: k 25-byte blocks, each starting with 0x0F, fed through iter_packets
\* (or iter_packets_raw) to an assembler in AwaitingHead yield exactly k
\* results, the i-th being the result for block i alone; the assembler is in
\* AwaitingHead afterwards, and a second pass on the same parser yields the
\* same k results.
C9_OneResultPerBlock ==
    (AllFrames /\ parser0.state = AwaitingHead) =>
        /\ whole.done =>
              /\ whole.results = [i \in 1..Len(dblocks) |-> ExpectedParsed(ToBuf(dblocks[i]))]
              /\ whole.parser.state = AwaitingHead
        /\ second.done =>
              /\ second.results = [i \in 1..Len(dblocks) |-> ExpectedParsed(ToBuf(dblocks[i]))]
              /\ second.parser.state = AwaitingHead
        /\ rawiter.done =>
              /\ rawiter.results = [i \in 1..Len(dblocks) |-> ExpectedRaw(ToBuf(dblocks[i]))]
              /\ rawiter.parser.state = AwaitingHead

\* test_basic_iterator: two passes over the 125 bytes, five results each.
C9_Witness ==
    /\ dblocks = TestStream
    /\ parser0 = SbusParser_new
    /\ second.done
    /\ rawiter.done
    /\ Len(whole.results) = 5
    /\ Len(second.results) = 5
    /\ second.results[1] = InvalidFooter(255)
    /\ second.results[2] = Ok(TestPacket)
    /\ second.results[5] = InvalidFlags(255)

\* Results the byte-at-a-time run had returned once n bytes were fed.
EmittedBy(n) == Cardinality({i \in 1..Len(manual.emitAt) : manual.emitAt[i] <= n})

\* C10: with one parser, draining iter_packets on each chunk of a stream in
\* order yields, concatenated, the results of draining iter_packets once over
\* the whole stream; a chunk ending in the middle of a frame yields nothing
\* for that frame until later bytes complete it.
C10_ChunksEqualWhole ==
    ipc = "chunked" =>
        /\ chunked.results =
              SubSeq(whole.results, 1, EmittedBy(chunked.off - Len(chunked.remaining_data)))
        /\ (chunked.off = Len(data) /\ ~chunked.active) =>
              (chunked.results = whole.results /\ chunked.parser = whole.parser)

\* A stream of two frames was read in chunks, one of which ended inside a
\* frame, and both results came out.
C10_Witness ==
    /\ ipc = "chunked"
    /\ chunked.off = Len(data)
    /\ ~chunked.active
    /\ chunked.midframe
    /\ parser0 = SbusParser_new
    /\ AllFrames
    /\ Len(dblocks) = 2
    /\ Len(chunked.results) = 2

\* Bit k of the LSB-first bit stream formed by bytes 1..22 of frame f.
StreamBit(f, k) == (f[1 + (k \div 8)] \div Pow2(k % 8)) % 2

RECURSIVE StreamBits(_, _, _)
\* The value of the 11 - j bits of the stream from bit off + j on, weighted
\* from 2^j.
StreamBits(f, off, j) ==
    IF j = 11 THEN 0
    ELSE StreamBit(f, off + j) * Pow2(j) + StreamBits(f, off, j + 1)

\* The packet the wire format assigns to the 25 bytes f.
WireDecode(f) ==
    [channels |-> [i \in 0..(SBUS_NUM_CHANNELS - 1) |-> StreamBits(f, 11 * i, 0)],
     channel_17 |-> f[23] % 2 = 1,
     channel_18 |-> (f[23] \div 2) % 2 = 1,
     frame_lost |-> (f[23] \div 4) % 2 = 1,
     failsafe |-> (f[23] \div 8) % 2 = 1]

\* C11: decode matches the wire format.  For every 25-byte raw frame,
\* channel i of SbusPacket::parse is the 11 bits at bit offset 11*i of the
\* LSB-first bit stream of bytes 1..22, and channel_17, channel_18,
\* frame_lost, failsafe are bits 0, 1, 2, 3 of byte 23.
C11_DecodeMatchesWire ==
    cpc = "decoded" => parsed = WireDecode(frame)

\* A frame whose byte 9 alone carries bits has been decoded: its bits fall
\* into channels 5 and 6.
C11_Witness ==
    /\ cpc = "decoded"
    /\ frame[7] = 0 /\ frame[8] = 0 /\ frame[9] = 85 /\ frame[10] = 0
    /\ parsed.channels[5] = 512
    /\ parsed.channels[6] = 21

\* Byte k (1..22) of the LSB-first bit stream in which channel i of packet pk
\* occupies bits 11*i .. 11*i + 10: the stream's bits 8*(k-1) .. 8*(k-1) + 7.
\* They are the bits of channel c from its bit r upwards and, above those,
\* the low bits of channel c + 1.
StreamByte(pk, k) ==
    LET lo == 8 * (k - 1)
        c == lo \div 11
        r == lo % 11
        above == IF c + 1 < SBUS_NUM_CHANNELS THEN pk.channels[c + 1] ELSE 0
    IN  ((pk.channels[c] \div Pow2(r)) + above * Pow2(11 - r)) % 256

\* The 25 bytes the wire format assigns to packet pk.
WireEncode(pk) ==
    [i \in 0..(SBUS_PACKET_SIZE - 1) |->
        CASE i = 0 -> 15
          [] i = 23 -> BoolU8(pk.channel_17) + 2 * BoolU8(pk.channel_18)
                       + 4 * BoolU8(pk.frame_lost) + 8 * BoolU8(pk.failsafe)
          [] i = 24 -> 0
          [] OTHER -> StreamByte(pk, i)]

\* C12: encode_packet determines all 25 bytes from the packet alone, whatever
\* the buffer held before (all 0xFF or all 0x00): byte 0 is 0x0F, bytes 1..22
\* the 11-bit LSB-first packing, byte 23 the four flags with bits 4-7 zero,
\* byte 24 is 0x00; so the encoded frame passes validate_frame.
C12_EncodeDeterminesAll ==
    cpc = "written" =>
        /\ buf = WireEncode(packet)
        /\ validate_frame([buffer |-> buf, state |-> AwaitingHead]) = OkUnit

\* A packet with channels 0 and 1 zero was encoded into the all-0xFF buffer:
\* byte 2, which the encoder writes twice from its own value, came out zero.
C12_Witness ==
    /\ cpc = "written"
    /\ dirty = Fill(255)
    /\ edits > 0
    /\ packet.channels[0] = 0
    /\ packet.channels[1] = 0
    /\ buf[2] = 0

\* C13: for every 25-byte raw frame, with any payload, every channel returned
\* by SbusPacket::parse is in 0..=2047.
C13_ChannelsInRange ==
    cpc = "decoded" =>
        \A i \in 0..(SBUS_NUM_CHANNELS - 1) : parsed.channels[i] \in 0..2047

\* A frame with every payload bit set and a byte that is no footer has been
\* decoded: every channel is 2047.
C13_Witness ==
    /\ cpc = "decoded"
    /\ \A i \in 1..22 : frame[i] = 255
    /\ frame[24] = 255
    /\ \A i \in 0..(SBUS_NUM_CHANNELS - 1) : parsed.channels[i] = 2047

\* C14: reverse round trip.  For a raw frame f that validate_frame accepts and
\* whose byte 0 is 0x0F: with footer 0x00, encode_packet(parse(f)) is f byte
\* for byte; with a telemetry footer 0x04, 0x14, 0x24 or 0x34 the re-encoded
\* frame differs from f, the encoder having written footer 0x00.
C14_ReverseRoundTrip ==
    (/\ cpc = "reencoded"
     /\ frame[0] = 15
     /\ validate_frame([buffer |-> frame, state |-> AwaitingHead]) = OkUnit) =>
        /\ frame[24] = 0 => buf = frame
        /\ frame[24] \in {4, 20, 36, 52} =>
            (buf # frame /\ buf = [frame EXCEPT ![24] = 0])

\* A valid frame with footer 0x00, flags 0b1010 and an altered payload byte
\* was decoded and encoded again into the all-0xFF buffer.
C14_Witness ==
    /\ cpc = "reencoded"
    /\ dirty = Fill(255)
    /\ frame[0] = 15
    /\ frame[5] = 170
    /\ frame[23] = 10
    /\ frame[24] = 0
    /\ buf = frame

\* C15: in every reachable state the assembler is in AwaitingHead or in
\* Reading(n) with 1 <= n <= 24, n being the number of bytes stored since and
\* including the header; every buffer write uses an index in 0..=24; and in
\* Reading(n), buffer[0] is 0x0F.
C15_StateAndBuffer ==
    /\ parser.state = AwaitingHead \/ \E n \in 1..24 : parser.state = Reading(n)
    /\ DOMAIN parser.buffer = 0..24
    /\ (op = "push_byte" /\ prev.state # AwaitingHead) => prev.state.n \in 0..24
    /\ parser.state # AwaitingHead =>
        LET n == parser.state.n
            len == Len(hist.recent)
        IN  /\ n <= len
            /\ \A i \in 0..(n - 1) : parser.buffer[i] = hist.recent[len - n + 1 + i]
            /\ parser.buffer[0] = 15

\* The assembler is in Reading(24) after a byte of noise and the first 24
\* bytes of a frame.
C15_Witness ==
    /\ parser.state = Reading(24)
    /\ Len(hist.recent) = 25
    /\ hist.recent[1] = 165
    /\ parser.buffer[23] = hist.recent[25]

\* C16: in Reading(n), n < 24, any pushed byte, 0x0F included, is stored at
\* buffer position n, the state becomes Reading(n+1) and nothing is returned;
\* a 0x0F inside a frame does not restart it, so from Reading(n) the next
\* output comes after exactly 25 - n further bytes.
C16_ReadingStoresAnyByte ==
    /\ (op = "push_byte" /\ prev.state # AwaitingHead /\ prev.state.n < 24) =>
        /\ parser.buffer = [prev.buffer EXCEPT ![prev.state.n] = byte]
        /\ parser.state = Reading(prev.state.n + 1)
        /\ ret = None
        /\ rawret = None
    /\ (op = "push_byte" /\ start.state # AwaitingHead /\ Fed >= 1) =>
        /\ Fed < 25 - start.state.n => ret = None
        /\ Fed = 25 - start.state.n => ret # None

\* A block beginning with 0x0F was begun in Reading(1): the 0x0F was stored as
\* payload and the output came with the block's 24th byte.
C16_Witness ==
    /\ op = "push_byte"
    /\ start.state = Reading(1)
    /\ cur # <<>>
    /\ cur[1] = 15
    /\ Fed = 24
    /\ ret # None
    /\ parser.buffer[1] = 15

\* C17: every completed buffer is validated before it is emitted.  try_parse
\* never runs in state Reading(25), so every Ok(raw frame) has its footer in
\* {0x00, 0x04, 0x14, 0x24, 0x34} and bits 4-7 of its flag byte zero, and
\* every Ok(packet) of push_byte is the decode of such a frame.
C17_EmittedFramesValidated ==
    (op = "push_byte" /\ rawret # None) =>
        /\ parser.state # Reading(25)
        /\ rawret.tag = "Ok" =>
            /\ rawret.val[24] \in {0, 4, 20, 36, 52}
            /\ rawret.val[23] < 16
            /\ ret = Ok(SbusPacket_parse(rawret.val))
        /\ rawret.tag = "Err" => ret = rawret

\* The frame with 0x0F in its payload was emitted as Ok and decoded.
C17_Witness ==
    /\ op = "push_byte"
    /\ rawret = Ok(CH15_FRAME)
    /\ ret = Ok(Ch15Packet)

\* C18: every raw frame emitted as Ok is the 25 most recently pushed bytes,
\* in push order, with no reset between them: byte 0 is 0x0F, byte 24 the byte
\* of the emitting call, and nothing is left of an earlier frame, of a
\* discarded partial frame or of the zeroed buffer.  Two outputs are never
\* less than 25 pushed bytes apart.
C18_EmittedIsLast25 ==
    (op = "push_byte" /\ rawret # None) =>
        /\ hist.gap = 25
        /\ rawret.tag = "Ok" =>
            /\ Len(hist.recent) = 25
            /\ rawret.val = ToBuf(hist.recent)
            /\ rawret.val[0] = 15
            /\ rawret.val[24] = byte

\* A frame was emitted as Ok after a reset had discarded a partial frame.
C18_Witness ==
    /\ op = "push_byte"
    /\ rawret.tag = "Ok"
    /\ start.op = "reset"
    /\ start.prev # AwaitingHead
    /\ Fed = 25

\* The assembler has just returned Some for a read whose header byte was not
\* the first byte of a frame of the stream: it lay inside a frame.
FalseHeaderOutput ==
    /\ op = "push_byte"
    /\ rawret # None
    /\ Len(hist.marks) = 25
    /\ ~hist.marks[1]

\* C19 as claimed: after locking onto a false header the result at the next
\* 25-byte boundary is an Err; a misaligned window is never emitted as Ok.
C19_FalseHeaderIsErr ==
    FalseHeaderOutput => rawret.tag = "Err"

\* C19, amended: after locking onto a false header the result at the next
\* 25-byte boundary is what the footer and flag checks say of the misaligned
\* window: InvalidFooter when its byte 24 is no footer, else InvalidFlags when
\* its byte 23 has one of bits 4-7 set, else Ok of the misaligned window.
C19_FalseHeaderChecked ==
    FalseHeaderOutput => rawret = ExpectedRaw(ToBuf(hist.recent))

\* The last three bytes of a frame ending 0F 00 00 and the first 22 bytes of
\* the next frame were emitted as an Ok frame.
C19_Witness ==
    /\ FalseHeaderOutput
    /\ rawret.tag = "Ok"
    /\ rawret.val = ToBuf(hist.recent)
    /\ hist.marks[4]

\* Bytes of data the stepped iterator has taken off its slice.
Consumed == Len(data) - Len(probe.remaining_data)

\* C20: each next() feeds the slice's bytes to the assembler in order and
\* stops right after the first byte that completes a frame, returning that
\* result and leaving the bytes after it unfed; it returns None only when the
\* slice is exhausted and goes on returning None; every byte is fed exactly
\* once, in order, only if the iterator is drained; the bytes left in an
\* iterator dropped early never reach the assembler.
\* The push_byte loop over the same bytes from the same parser is the
\* measure: manual.emitAt[k] is the number of bytes it had pushed, in order
\* and each once, when its k-th Some came, manual.parserAt[k] its parser
\* then, and `parser` its parser after the last byte.
C20_NextStopsAtCompletion ==
    ipc \in {"probe", "dropped"} =>
        /\ probe.remaining_data = SubSeq(data, Consumed + 1, Len(data))
        /\ probe.last = NoCall => (Consumed = 0 /\ probe.parser = parser0)
        /\ (probe.last # NoCall /\ probe.last # None) =>
            LET k == Len(probe.results)
            IN  /\ k <= Len(manual.emitAt)
                /\ Consumed = manual.emitAt[k]
                /\ probe.parser = manual.parserAt[k]
                /\ probe.last = IF probe.kind = "packets" THEN manual.results[k]
                                ELSE manual.rawresults[k]
        /\ probe.last = None =>
            /\ probe.remaining_data = <<>>
            /\ probe.parser = parser
            /\ Len(probe.results) = Len(manual.emitAt)
        /\ probe.nones >= 1 => probe.last = None

\* An iterator was dropped after its first result with a whole frame still in
\* its slice; the parser is back in AwaitingHead.
C20_Witness ==
    /\ ipc = "dropped"
    /\ Len(probe.results) = 1
    /\ Len(probe.remaining_data) >= 25
    /\ probe.parser.state = AwaitingHead
    /\ Len(manual.results) = 2

====
